---- MODULE Spec2Model ----
(***************************************************************************)
(* apply-edit (src/main.go): a search/replace edit read from stdin in the  *)
(* three-marker diff format is parsed by parseDiff and applied to a file   *)
(* by performEdit.  Go strings are modelled as sequences of one-character  *)
(* strings; slice positions are 0-based as in the Go code.                 *)
(***************************************************************************)
EXTENDS Integers, Sequences, FiniteSets, TLC

VARIABLES
    pc,            \* position in main / in the function under check
    explain,       \* main: the --explain flag
    nargs,         \* main: flag.NArg()
    stdin,         \* main: the text waiting on standard input
    file,          \* the target file's content on disk
    file0,         \* the target file's content when the invocation started
    writes,        \* the data of every os.WriteFile call made so far
    status,        \* exit status of the invocation, -1 while running
    diff,          \* parseDiff: its argument
    lines,         \* parseDiff: strings.Split(strings.TrimSpace(diff), "\n")
    idx,           \* parseDiff: number of lines the range loop has consumed
    searchLines,   \* parseDiff: collected search lines
    replaceLines,  \* parseDiff: collected replace lines
    inSearch,      \* parseDiff: collecting search
    inReplace,     \* parseDiff: collecting replace
    parseErr,      \* parseDiff: returned error (NoError = nil)
    content,       \* performEdit: its content argument
    searchBlock,   \* parseDiff result / performEdit argument
    replaceBlock,  \* parseDiff result / performEdit argument
    newContent,    \* performEdit: returned content
    editErr        \* performEdit: returned error (NoError = nil)

vars == <<pc, explain, nargs, stdin, file, file0, writes, status, diff, lines,
          idx, searchLines, replaceLines, inSearch, inReplace, parseErr,
          content, searchBlock, replaceBlock, newContent, editErr>>

----------------------------------------------------------------------------
(* Characters and bounds *)

CR == "\r"
LF == "\n"
SP == " "

\* longest content string given to performEdit in SpecEdit
MaxContentLen == 4
\* longest search string given to performEdit in SpecEdit
MaxSearchLen == 2

\* all sequences over S of length at most n
RECURSIVE SeqsUpTo(_, _)
SeqsUpTo(S, n) ==
    IF n = 0 THEN {<<>>}
    ELSE LET shorter == SeqsUpTo(S, n - 1)
         IN  shorter \cup {Append(s, c) : s \in {t \in shorter : Len(t) = n - 1}, c \in S}

EditAlphabet == {"a", CR, LF}
ContentInputs == SeqsUpTo(EditAlphabet, MaxContentLen)
SearchInputs == SeqsUpTo(EditAlphabet, MaxSearchLen)
ReplaceInputs == {<<>>, <<"b">>, <<"a">>, <<"b", CR, LF>>}

----------------------------------------------------------------------------
(* The Go string functions the program uses *)

\* s[from:to]
Slice(s, from, to) == SubSeq(s, from + 1, to)

\* s[from:]
SliceFrom(s, from) == SubSeq(s, from + 1, Len(s))

\* strings.HasPrefix(s, prefix)
HasPrefix(s, prefix) ==
    /\ Len(s) >= Len(prefix)
    /\ SubSeq(s, 1, Len(prefix)) = prefix

\* strings.Index(s, substr): the first position where substr starts, or -1
RECURSIVE IndexFrom(_, _, _)
IndexFrom(s, substr, from) ==
    IF from + Len(substr) > Len(s) THEN -1
    ELSE IF Slice(s, from, from + Len(substr)) = substr THEN from
    ELSE IndexFrom(s, substr, from + 1)

Index(s, substr) == IndexFrom(s, substr, 0)

\* strings.ReplaceAll(s, old, new) for a non-empty old: non-overlapping
\* occurrences, left to right, in one pass
RECURSIVE ReplaceAll(_, _, _)
ReplaceAll(s, old, new) ==
    IF s = <<>> THEN <<>>
    ELSE IF HasPrefix(s, old)
         THEN new \o ReplaceAll(SliceFrom(s, Len(old)), old, new)
         ELSE <<Head(s)>> \o ReplaceAll(Tail(s), old, new)

----------------------------------------------------------------------------
(* performEdit *)

NoError == <<>>

ErrNotFound(search) == <<"search block not found in file:", LF>> \o search

ErrAmbiguous == <<"multiple occurrences of search block found - edit would be ambiguous">>

\* variant: every CR is turned into LF, not only the CR of a CRLF pair
NormalizeLineEndings_AllCR(s) ==
    ReplaceAll(ReplaceAll(s, <<CR, LF>>, <<LF>>), <<CR>>, <<LF>>)

NormalizeLineEndings(s) == ReplaceAll(s, <<CR, LF>>, <<LF>>)

\* variant: the second Index result is tested with > 0 instead of != -1
HasSecondOccurrence_Positive(normalizedContent, normalizedSearch, index) ==
    Index(SliceFrom(normalizedContent, index + Len(normalizedSearch)), normalizedSearch) > 0

\* the second strings.Index call: is there an occurrence in the remainder
\* that starts right after the end of the first match
HasSecondOccurrence(normalizedContent, normalizedSearch, index) ==
    Index(SliceFrom(normalizedContent, index + Len(normalizedSearch)), normalizedSearch) # -1

\* variant: the replace block is normalized like the search block
PerformEdit_NormalizedReplace(c, search, replace) ==
    LET normalizedContent == NormalizeLineEndings(c)
        normalizedSearch == NormalizeLineEndings(search)
        index == Index(normalizedContent, normalizedSearch)
    IN  IF index = -1
        THEN [newContent |-> <<>>, err |-> ErrNotFound(search)]
        ELSE IF HasSecondOccurrence(normalizedContent, normalizedSearch, index)
        THEN [newContent |-> <<>>, err |-> ErrAmbiguous]
        ELSE [newContent |-> Slice(normalizedContent, 0, index)
                             \o NormalizeLineEndings(replace)
                             \o SliceFrom(normalizedContent, index + Len(normalizedSearch)),
              err |-> NoError]

\* variant: the not-found error reports the normalized search text
PerformEdit_NormalizedInError(c, search, replace) ==
    LET normalizedContent == NormalizeLineEndings(c)
        normalizedSearch == NormalizeLineEndings(search)
        index == Index(normalizedContent, normalizedSearch)
    IN  IF index = -1
        THEN [newContent |-> <<>>, err |-> ErrNotFound(normalizedSearch)]
        ELSE IF HasSecondOccurrence(normalizedContent, normalizedSearch, index)
        THEN [newContent |-> <<>>, err |-> ErrAmbiguous]
        ELSE [newContent |-> Slice(normalizedContent, 0, index) \o replace
                             \o SliceFrom(normalizedContent, index + Len(normalizedSearch)),
              err |-> NoError]

PerformEdit(c, search, replace) ==
    LET normalizedContent == NormalizeLineEndings(c)
        normalizedSearch == NormalizeLineEndings(search)
        index == Index(normalizedContent, normalizedSearch)
    IN  IF index = -1
        THEN [newContent |-> <<>>, err |-> ErrNotFound(search)]
        ELSE IF HasSecondOccurrence(normalizedContent, normalizedSearch, index)
        THEN [newContent |-> <<>>, err |-> ErrAmbiguous]
        ELSE [newContent |-> Slice(normalizedContent, 0, index) \o replace
                             \o SliceFrom(normalizedContent, index + Len(normalizedSearch)),
              err |-> NoError]

\* variant: main goes on to write whatever performEdit returned
DoPerformEdit_ErrorIgnored ==
    /\ pc = "performEdit"
    /\ LET r == PerformEdit(content, searchBlock, replaceBlock)
       IN  /\ newContent' = r.newContent
           /\ editErr' = r.err
           /\ pc' = "writeFile"
    /\ UNCHANGED <<explain, nargs, stdin, file, file0, writes, status, diff, lines,
                   idx, searchLines, replaceLines, inSearch, inReplace, parseErr,
                   content, searchBlock, replaceBlock>>

\* the call of performEdit and the assignment of its two results
DoPerformEdit ==
    /\ pc = "performEdit"
    /\ LET r == PerformEdit(content, searchBlock, replaceBlock)
       IN  /\ newContent' = r.newContent
           /\ editErr' = r.err
           /\ pc' = IF r.err = NoError THEN "writeFile" ELSE "editFailed"
    /\ UNCHANGED <<explain, nargs, stdin, file, file0, writes, status, diff, lines,
                   idx, searchLines, replaceLines, inSearch, inReplace, parseErr,
                   content, searchBlock, replaceBlock>>

\* performEdit alone, on every content, search and replace within the bounds
InitEdit ==
    /\ pc = "performEdit"
    /\ content \in ContentInputs
    /\ searchBlock \in SearchInputs
    /\ replaceBlock \in ReplaceInputs
    /\ explain = FALSE /\ nargs = 1 /\ stdin = <<>>
    /\ file = content /\ file0 = content /\ writes = <<>> /\ status = -1
    /\ diff = <<>> /\ lines = <<>> /\ idx = 0
    /\ searchLines = <<>> /\ replaceLines = <<>>
    /\ inSearch = FALSE /\ inReplace = FALSE /\ parseErr = NoError
    /\ newContent = <<>> /\ editErr = NoError

NextEdit == DoPerformEdit

SpecEdit == InitEdit /\ [][NextEdit]_vars

----------------------------------------------------------------------------
(* parseDiff *)

SearchMarker == <<"<", "<", "<", "<", "<", "<", "<", " ", "S", "E", "A", "R", "C", "H">>

SeparatorMarker == <<"=", "=", "=", "=", "=", "=", "=">>

ReplaceMarker == <<">", ">", ">", ">", ">", ">", ">", " ", "R", "E", "P", "L", "A", "C", "E">>

ErrNoSearchBlock == <<"no search block found in diff">>

\* unicode.IsSpace on the characters the model uses
IsSpace(c) == c \in {SP, "\t", LF, "\f", CR}

RECURSIVE TrimLeft(_)
TrimLeft(s) == IF s # <<>> /\ IsSpace(Head(s)) THEN TrimLeft(Tail(s)) ELSE s

RECURSIVE TrimRight(_)
TrimRight(s) ==
    IF s # <<>> /\ IsSpace(s[Len(s)]) THEN TrimRight(SubSeq(s, 1, Len(s) - 1)) ELSE s

\* strings.TrimSpace(s)
TrimSpace(s) == TrimRight(TrimLeft(s))

\* strings.Split(s, sep) for a non-empty sep; Split("", sep) is [""]
RECURSIVE Split(_, _)
Split(s, sep) ==
    LET at == Index(s, sep)
    IN  IF at = -1 THEN <<s>>
        ELSE <<Slice(s, 0, at)>> \o Split(SliceFrom(s, at + Len(sep)), sep)

\* strings.Join(elems, sep)
RECURSIVE Join(_, _)
Join(elems, sep) ==
    IF elems = <<>> THEN <<>>
    ELSE IF Len(elems) = 1 THEN elems[1]
    ELSE elems[1] \o sep \o Join(Tail(elems), sep)

\* variant: the two collecting cases are tested before the replace marker
LineCase_CollectBeforeReplaceMarker(line, collectingSearch, collectingReplace) ==
    IF HasPrefix(line, SearchMarker) THEN "search marker"
    ELSE IF HasPrefix(line, SeparatorMarker) THEN "separator"
    ELSE IF collectingSearch THEN "search line"
    ELSE IF collectingReplace THEN "replace line"
    ELSE IF HasPrefix(line, ReplaceMarker) THEN "replace marker"
    ELSE "none"

\* the case of the switch that a line takes, tested in the order of the code
LineCase(line, collectingSearch, collectingReplace) ==
    IF HasPrefix(line, SearchMarker) THEN "search marker"
    ELSE IF HasPrefix(line, SeparatorMarker) THEN "separator"
    ELSE IF HasPrefix(line, ReplaceMarker) THEN "replace marker"
    ELSE IF collectingSearch THEN "search line"
    ELSE IF collectingReplace THEN "replace line"
    ELSE "none"

\* the locals of parseDiff before the loop
ScanStart ==
    [searchLines |-> <<>>, replaceLines |-> <<>>, inSearch |-> FALSE, inReplace |-> FALSE]

\* variant: the separator starts the replace section without closing the
\* search section
ScanStep_SeparatorKeepsSearch(st, line) ==
    LET case == LineCase(line, st.inSearch, st.inReplace)
    IN  IF case = "search marker"
        THEN [st EXCEPT !.inSearch = TRUE, !.inReplace = FALSE]
        ELSE IF case = "separator"
        THEN [st EXCEPT !.inReplace = TRUE]
        ELSE IF case = "replace marker"
        THEN [st EXCEPT !.inSearch = FALSE, !.inReplace = FALSE]
        ELSE IF case = "search line"
        THEN [st EXCEPT !.searchLines = Append(@, line)]
        ELSE IF case = "replace line"
        THEN [st EXCEPT !.replaceLines = Append(@, line)]
        ELSE st

\* variant: a search marker discards the search lines collected so far
ScanStep_SearchMarkerResets(st, line) ==
    LET case == LineCase(line, st.inSearch, st.inReplace)
    IN  IF case = "search marker"
        THEN [st EXCEPT !.inSearch = TRUE, !.inReplace = FALSE, !.searchLines = <<>>]
        ELSE IF case = "separator"
        THEN [st EXCEPT !.inSearch = FALSE, !.inReplace = TRUE]
        ELSE IF case = "replace marker"
        THEN [st EXCEPT !.inSearch = FALSE, !.inReplace = FALSE]
        ELSE IF case = "search line"
        THEN [st EXCEPT !.searchLines = Append(@, line)]
        ELSE IF case = "replace line"
        THEN [st EXCEPT !.replaceLines = Append(@, line)]
        ELSE st

\* variant: a search marker starts the search section without closing the
\* replace section
ScanStep_SearchMarkerKeepsReplace(st, line) ==
    LET case == LineCase(line, st.inSearch, st.inReplace)
    IN  IF case = "search marker"
        THEN [st EXCEPT !.inSearch = TRUE]
        ELSE IF case = "separator"
        THEN [st EXCEPT !.inSearch = FALSE, !.inReplace = TRUE]
        ELSE IF case = "replace marker"
        THEN [st EXCEPT !.inSearch = FALSE, !.inReplace = FALSE]
        ELSE IF case = "search line"
        THEN [st EXCEPT !.searchLines = Append(@, line)]
        ELSE IF case = "replace line"
        THEN [st EXCEPT !.replaceLines = Append(@, line)]
        ELSE st

\* one iteration of the range loop
ScanStep(st, line) ==
    LET case == LineCase(line, st.inSearch, st.inReplace)
    IN  IF case = "search marker"
        THEN [st EXCEPT !.inSearch = TRUE, !.inReplace = FALSE]
        ELSE IF case = "separator"
        THEN [st EXCEPT !.inSearch = FALSE, !.inReplace = TRUE]
        ELSE IF case = "replace marker"
        THEN [st EXCEPT !.inSearch = FALSE, !.inReplace = FALSE]
        ELSE IF case = "search line"
        THEN [st EXCEPT !.searchLines = Append(@, line)]
        ELSE IF case = "replace line"
        THEN [st EXCEPT !.replaceLines = Append(@, line)]
        ELSE st

\* variant: the emptiness test is made on the joined search block
ScanResult_EmptyBlockTest(st) ==
    IF Join(st.searchLines, <<LF>>) = <<>>
    THEN [searchBlock |-> <<>>, replaceBlock |-> <<>>, err |-> ErrNoSearchBlock]
    ELSE [searchBlock |-> Join(st.searchLines, <<LF>>),
          replaceBlock |-> Join(st.replaceLines, <<LF>>),
          err |-> NoError]

\* the statements after the loop
ScanResult(st) ==
    IF Len(st.searchLines) = 0
    THEN [searchBlock |-> <<>>, replaceBlock |-> <<>>, err |-> ErrNoSearchBlock]
    ELSE [searchBlock |-> Join(st.searchLines, <<LF>>),
          replaceBlock |-> Join(st.replaceLines, <<LF>>),
          err |-> NoError]

RECURSIVE ScanAll(_, _)
ScanAll(st, ls) == IF ls = <<>> THEN st ELSE ScanAll(ScanStep(st, Head(ls)), Tail(ls))

\* parseDiff as a function of its argument
ParseDiff(d) == ScanResult(ScanAll(ScanStart, Split(TrimSpace(d), <<LF>>)))

\* line 134 and the declarations of the locals
ParseBegin ==
    /\ pc = "parseDiff"
    /\ lines' = Split(TrimSpace(diff), <<LF>>)
    /\ idx' = 0
    /\ searchLines' = ScanStart.searchLines
    /\ replaceLines' = ScanStart.replaceLines
    /\ inSearch' = ScanStart.inSearch
    /\ inReplace' = ScanStart.inReplace
    /\ pc' = "parseLoop"
    /\ UNCHANGED <<explain, nargs, stdin, file, file0, writes, status, diff, parseErr,
                   content, searchBlock, replaceBlock, newContent, editErr>>

\* one iteration of the loop over lines
ParseLine ==
    /\ pc = "parseLoop"
    /\ idx < Len(lines)
    /\ LET st == ScanStep([searchLines |-> searchLines, replaceLines |-> replaceLines,
                           inSearch |-> inSearch, inReplace |-> inReplace],
                          lines[idx + 1])
       IN  /\ searchLines' = st.searchLines
           /\ replaceLines' = st.replaceLines
           /\ inSearch' = st.inSearch
           /\ inReplace' = st.inReplace
    /\ idx' = idx + 1
    /\ UNCHANGED <<pc, explain, nargs, stdin, file, file0, writes, status, diff, lines,
                   parseErr, content, searchBlock, replaceBlock, newContent, editErr>>

\* the end of the loop, and the return
ParseEnd ==
    /\ pc = "parseLoop"
    /\ idx = Len(lines)
    /\ LET r == ScanResult([searchLines |-> searchLines, replaceLines |-> replaceLines,
                            inSearch |-> inSearch, inReplace |-> inReplace])
       IN  /\ searchBlock' = r.searchBlock
           /\ replaceBlock' = r.replaceBlock
           /\ parseErr' = r.err
           /\ pc' = IF r.err = NoError THEN "readFile" ELSE "parseFailed"
    /\ UNCHANGED <<explain, nargs, stdin, file, file0, writes, status, diff, lines, idx,
                   searchLines, replaceLines, inSearch, inReplace,
                   content, newContent, editErr>>

\* most lines of a diff text given to parseDiff in SpecParse, not counting
\* an indented first line
MaxDiffLines == 5

\* the lines the diff texts of SpecParse are made of: the three markers, a
\* text line and a blank line
DiffLineKinds == {SearchMarker, SeparatorMarker, ReplaceMarker, <<"a">>, <<>>}

\* a first line that starts with a blank
IndentedFirstLines == {<<SP>> \o SearchMarker}

DiffLineSeqs ==
    SeqsUpTo(DiffLineKinds, MaxDiffLines)
        \cup {<<first>> \o ls : first \in IndentedFirstLines,
                                ls \in SeqsUpTo(DiffLineKinds, MaxDiffLines)}

DiffInputs == {Join(ls, <<LF>>) : ls \in DiffLineSeqs}

\* parseDiff alone, on every diff text within the bounds
InitParse ==
    /\ pc = "parseDiff"
    /\ diff \in DiffInputs
    /\ explain = FALSE /\ nargs = 1 /\ stdin = <<>>
    /\ file = <<>> /\ file0 = <<>> /\ writes = <<>> /\ status = -1
    /\ lines = <<>> /\ idx = 0
    /\ searchLines = <<>> /\ replaceLines = <<>>
    /\ inSearch = FALSE /\ inReplace = FALSE /\ parseErr = NoError
    /\ content = <<>> /\ searchBlock = <<>> /\ replaceBlock = <<>>
    /\ newContent = <<>> /\ editErr = NoError

NextParse == ParseBegin \/ ParseLine \/ ParseEnd

SpecParse == InitParse /\ [][NextParse]_vars

----------------------------------------------------------------------------
(* main *)

\* readDiffFromStdin without a read error: ReadString('\n') returns the text
\* up to and including each newline, the last piece may lack one, and the
\* builder concatenates the pieces
RECURSIVE ReadAllLines(_)
ReadAllLines(input) ==
    LET at == Index(input, <<LF>>)
    IN  IF at = -1 THEN input
        ELSE Slice(input, 0, at + 1) \o ReadAllLines(SliceFrom(input, at + 1))

\* flag parsing, --explain and the argument count
MainStart ==
    /\ pc = "start"
    /\ IF explain THEN pc' = "explained" /\ status' = 0
       ELSE IF nargs # 1 THEN pc' = "failed usage" /\ status' = 1
       ELSE pc' = "readDiff" /\ status' = status
    /\ UNCHANGED <<explain, nargs, stdin, file, file0, writes, diff, lines, idx,
                   searchLines, replaceLines, inSearch, inReplace, parseErr,
                   content, searchBlock, replaceBlock, newContent, editErr>>

\* diff, err := readDiffFromStdin(), and the exit on a read error
MainReadDiff ==
    /\ pc = "readDiff"
    /\ \E ok \in BOOLEAN :
          IF ok
          THEN diff' = ReadAllLines(stdin) /\ pc' = "parseDiff" /\ status' = status
          ELSE diff' = <<>> /\ pc' = "failed readDiff" /\ status' = 1
    /\ UNCHANGED <<explain, nargs, stdin, file, file0, writes, lines, idx,
                   searchLines, replaceLines, inSearch, inReplace, parseErr,
                   content, searchBlock, replaceBlock, newContent, editErr>>

\* the exit when parseDiff returned an error
MainParseFailed ==
    /\ pc = "parseFailed"
    /\ pc' = "failed parseDiff"
    /\ status' = 1
    /\ UNCHANGED <<explain, nargs, stdin, file, file0, writes, diff, lines, idx,
                   searchLines, replaceLines, inSearch, inReplace, parseErr,
                   content, searchBlock, replaceBlock, newContent, editErr>>

\* content, err := os.ReadFile(filename), and the exit on an error
MainReadFile ==
    /\ pc = "readFile"
    /\ \E ok \in BOOLEAN :
          IF ok
          THEN content' = file /\ pc' = "performEdit" /\ status' = status
          ELSE content' = <<>> /\ pc' = "failed readFile" /\ status' = 1
    /\ UNCHANGED <<explain, nargs, stdin, file, file0, writes, diff, lines, idx,
                   searchLines, replaceLines, inSearch, inReplace, parseErr,
                   searchBlock, replaceBlock, newContent, editErr>>

\* the exit when performEdit returned an error
MainEditFailed ==
    /\ pc = "editFailed"
    /\ pc' = "failed performEdit"
    /\ status' = 1
    /\ UNCHANGED <<explain, nargs, stdin, file, file0, writes, diff, lines, idx,
                   searchLines, replaceLines, inSearch, inReplace, parseErr,
                   content, searchBlock, replaceBlock, newContent, editErr>>

\* what a failed os.WriteFile(filename, data) can leave in the file: the old
\* content (the open failed) or, the file being truncated on opening, any
\* part of data written before the error
AfterFailedWrite(old, data) == {old} \cup {SubSeq(data, 1, k) : k \in 0..Len(data)}

\* err = os.WriteFile(filename, []byte(newContent), 0644), the exit on an
\* error and the success message
MainWriteFile ==
    /\ pc = "writeFile"
    /\ writes' = Append(writes, newContent)
    /\ \/ file' = newContent /\ pc' = "done" /\ status' = 0
       \/ file' \in AfterFailedWrite(file, newContent) /\ pc' = "failed writeFile" /\ status' = 1
    /\ UNCHANGED <<explain, nargs, stdin, file0, diff, lines, idx,
                   searchLines, replaceLines, inSearch, inReplace, parseErr,
                   content, searchBlock, replaceBlock, newContent, editErr>>

\* most lines of the text on standard input in Spec
MaxStdinLines == 4
\* longest target file in Spec
MaxFileLen == 2

StdinInputs == {Join(ls, <<LF>>) : ls \in SeqsUpTo(DiffLineKinds, MaxStdinLines)}
FileAlphabet == {"a", LF}
FileInputs == SeqsUpTo(FileAlphabet, MaxFileLen)

\* one invocation of the tool
Init ==
    /\ pc = "start"
    /\ explain \in BOOLEAN
    /\ nargs \in 0..2
    /\ stdin \in StdinInputs
    /\ file \in FileInputs
    /\ file0 = file
    /\ writes = <<>> /\ status = -1
    /\ diff = <<>> /\ lines = <<>> /\ idx = 0
    /\ searchLines = <<>> /\ replaceLines = <<>>
    /\ inSearch = FALSE /\ inReplace = FALSE /\ parseErr = NoError
    /\ content = <<>> /\ searchBlock = <<>> /\ replaceBlock = <<>>
    /\ newContent = <<>> /\ editErr = NoError

Next ==
    \/ MainStart
    \/ MainReadDiff
    \/ ParseBegin
    \/ ParseLine
    \/ ParseEnd
    \/ MainParseFailed
    \/ MainReadFile
    \/ DoPerformEdit
    \/ MainEditFailed
    \/ MainWriteFile

Spec == Init /\ [][Next]_vars

----------------------------------------------------------------------------
(* Vocabulary of the statements about performEdit, defined on the strings   *)
(* themselves and not through the program's functions                       *)

EditDone == pc \in {"writeFile", "editFailed"}

\* every 0-based position at which sub starts in s, overlapping ones included
Occurrences(s, sub) ==
    {p \in 0..(Len(s) - Len(sub)) : SubSeq(s, p + 1, p + Len(sub)) = sub}

\* position p (1-based) of s holds the CR of a CRLF pair
IsPairCR(s, p) == s[p] = CR /\ p < Len(s) /\ s[p + 1] = LF

\* s with every CRLF pair rewritten to LF
RECURSIVE CRLFtoLFFrom(_, _)
CRLFtoLFFrom(s, p) ==
    IF p > Len(s) THEN <<>>
    ELSE (IF IsPairCR(s, p) THEN <<>> ELSE <<s[p]>>) \o CRLFtoLFFrom(s, p + 1)

CRLFtoLF(s) == CRLFtoLFFrom(s, 1)

HasCRLF(s) == \E p \in 1..Len(s) : IsPairCR(s, p)

CountCR(s) == Cardinality({p \in 1..Len(s) : s[p] = CR})

LoneCRs(s) == Cardinality({p \in 1..Len(s) : s[p] = CR /\ ~IsPairCR(s, p)})

\* a CR directly before a CRLF pair
HasCRBeforeCRLF(s) == \E p \in 1..(Len(s) - 2) : s[p] = CR /\ IsPairCR(s, p + 1)

IsNotFoundError(e) == e # <<>> /\ Head(e) = "search block not found in file:"

IsAmbiguousError(e) ==
    e = <<"multiple occurrences of search block found - edit would be ambiguous">>

ErrorKind(e) ==
    IF e = <<>> THEN "none"
    ELSE IF IsNotFoundError(e) THEN "not found"
    ELSE IF IsAmbiguousError(e) THEN "ambiguous"
    ELSE "other"

\* sub is a contiguous part of s
Contains(s, sub) == Occurrences(s, sub) # {}

\* the occurrences of the normalized search in the normalized content
Matches == Occurrences(CRLFtoLF(content), CRLFtoLF(searchBlock))

----------------------------------------------------------------------------
(* C1 *)

\* C1: whenever the normalized, non-empty search starts at two or more
\* positions of the normalized content, overlapping or not, performEdit
\* returns the ambiguous-edit error and the empty string.
C1_TwoMatchesAreAmbiguous ==
    (EditDone /\ searchBlock # <<>> /\ Cardinality(Matches) >= 2)
        => (IsAmbiguousError(editErr) /\ newContent = <<>>)

----------------------------------------------------------------------------
(* C2 *)

\* the result the claim describes for a match at position p
ExpectedEdit(p) ==
    SubSeq(CRLFtoLF(content), 1, p) \o replaceBlock
        \o SubSeq(CRLFtoLF(content), p + Len(CRLFtoLF(searchBlock)) + 1,
                  Len(CRLFtoLF(content)))

\* C2 as stated: for every content, search and replace, a single match at i
\* makes performEdit succeed with normalizedContent[0..i) + replace +
\* normalizedContent[i+len(normalizedSearch)..end).
C2_SingleMatchIsReplaced ==
    (EditDone /\ Cardinality(Matches) = 1)
        => (editErr = NoError /\ \A p \in Matches : newContent = ExpectedEdit(p))

\* C2 amended: the same for every non-empty search (the empty search in the
\* empty content matches once, at 0, and is rejected as ambiguous).
C2_SingleMatchOfNonEmptySearchIsReplaced ==
    (EditDone /\ searchBlock # <<>> /\ Cardinality(Matches) = 1)
        => (editErr = NoError /\ \A p \in Matches : newContent = ExpectedEdit(p))

\* a single match away from the start, CRLF in the content, the search and
\* the replace text, and the edit made
C2_Witness ==
    /\ EditDone /\ editErr = NoError
    /\ searchBlock # <<>> /\ Cardinality(Matches) = 1 /\ 0 \notin Matches
    /\ HasCRLF(content) /\ HasCRLF(searchBlock) /\ HasCRLF(replaceBlock)
    /\ HasCRLF(newContent)

----------------------------------------------------------------------------
(* C3 *)

\* C3: when the normalized search starts nowhere in the normalized content,
\* performEdit returns the not-found error, whose text contains the search
\* text as it was passed in, and the empty string.
C3_NoMatchIsNotFound ==
    (EditDone /\ Matches = {})
        => /\ IsNotFoundError(editErr)
           /\ Contains(editErr, searchBlock)
           /\ newContent = <<>>

\* empty content, a search holding a CRLF pair, and the error returned
C3_Witness ==
    /\ EditDone /\ Matches = {} /\ content = <<>>
    /\ HasCRLF(searchBlock) /\ IsNotFoundError(editErr)

----------------------------------------------------------------------------
(* C4 *)

\* C4: with the empty search performEdit returns the ambiguous-edit error for
\* every content: it neither succeeds nor reports not-found, and it returns
\* the empty string.
C4_EmptySearchIsAmbiguous ==
    (EditDone /\ searchBlock = <<>>)
        => (IsAmbiguousError(editErr) /\ newContent = <<>>)

\* the empty search on the empty content, rejected
C4_Witness ==
    EditDone /\ searchBlock = <<>> /\ content = <<>> /\ editErr # NoError

----------------------------------------------------------------------------
(* C5 *)

\* the outcome of performEdit in this state equals that of performEdit on
\* the content and search rewritten beforehand
SameAsPreNormalized ==
    LET r == PerformEdit(CRLFtoLF(content), CRLFtoLF(searchBlock), replaceBlock)
    IN  /\ ErrorKind(editErr) = ErrorKind(r.err)
        /\ newContent = r.newContent

\* on success the CRs of the result are the lone CRs of the content outside
\* the match and the CRs of the replace text
LoneCRsKept ==
    editErr = NoError
        => CountCR(newContent)
             = LoneCRs(content) - LoneCRs(searchBlock) + CountCR(replaceBlock)

\* C5 as stated: for every content, search and replace the outcome is that of
\* performEdit on the content and search with every CRLF rewritten to LF
\* beforehand, and lone CRs stay.
C5_PreNormalizingChangesNothing ==
    EditDone => (SameAsPreNormalized /\ LoneCRsKept)

\* C5 amended: the same provided neither the content nor the search holds a
\* CR directly before a CRLF pair (rewriting CR CR LF leaves a new CRLF pair,
\* which a second rewriting would change again).
C5_PreNormalizingChangesNothingWithoutCRCRLF ==
    (EditDone /\ ~HasCRBeforeCRLF(content) /\ ~HasCRBeforeCRLF(searchBlock))
        => (SameAsPreNormalized /\ LoneCRsKept)

\* CRLF pairs in content and search, a lone CR in the content, an edit made
C5_Witness ==
    /\ EditDone /\ editErr = NoError
    /\ ~HasCRBeforeCRLF(content) /\ ~HasCRBeforeCRLF(searchBlock)
    /\ HasCRLF(content) /\ HasCRLF(searchBlock)
    /\ LoneCRs(content) > 0 /\ CountCR(newContent) > 0

----------------------------------------------------------------------------
(* Vocabulary of the statements about parseDiff *)

ParseDone == pc \in {"readFile", "parseFailed"}

IsNoSearchBlockError(e) == e = <<"no search block found in diff">>

\* the lines of a text as written, and the lines parseDiff scans
RawLines(d) == Split(d, <<LF>>)
TrimmedLines(d) == Split(TrimSpace(d), <<LF>>)

IsSearchMarkerLine(l) == HasPrefix(l, SearchMarker)
IsSeparatorLine(l) == HasPrefix(l, SeparatorMarker)
IsReplaceMarkerLine(l) == HasPrefix(l, ReplaceMarker)
IsMarkerLine(l) == IsSearchMarkerLine(l) \/ IsSeparatorLine(l) \/ IsReplaceMarkerLine(l)

SearchMarkerAt(ls) == {k \in 1..Len(ls) : IsSearchMarkerLine(ls[k])}
SeparatorAt(ls) == {k \in 1..Len(ls) : IsSeparatorLine(ls[k])}
ReplaceMarkerAt(ls) == {k \in 1..Len(ls) : IsReplaceMarkerLine(ls[k])}
MarkerAt(ls) == {k \in 1..Len(ls) : IsMarkerLine(ls[k])}

Max(S) == CHOOSE x \in S : \A y \in S : y <= x

\* one search marker, then one separator, then one replace marker, and at
\* least one line between the first two
WellFormed(ls) ==
    /\ Cardinality(SearchMarkerAt(ls)) = 1
    /\ Cardinality(SeparatorAt(ls)) = 1
    /\ Cardinality(ReplaceMarkerAt(ls)) = 1
    /\ Max(SearchMarkerAt(ls)) + 1 < Max(SeparatorAt(ls))
    /\ Max(SeparatorAt(ls)) < Max(ReplaceMarkerAt(ls))

\* the lines strictly between the search marker and the separator, and those
\* strictly between the separator and the replace marker, of a well-formed ls
BetweenSearchAndSeparator(ls) ==
    SubSeq(ls, Max(SearchMarkerAt(ls)) + 1, Max(SeparatorAt(ls)) - 1)
BetweenSeparatorAndReplace(ls) ==
    SubSeq(ls, Max(SeparatorAt(ls)) + 1, Max(ReplaceMarkerAt(ls)) - 1)

\* the positions of the lines that are no marker and whose nearest marker
\* above is a search marker
InSearchSectionAt(ls) ==
    {k \in 1..Len(ls) :
        /\ ~IsMarkerLine(ls[k])
        /\ \E j \in 1..(k - 1) :
              /\ IsSearchMarkerLine(ls[j])
              /\ \A m \in (j + 1)..(k - 1) : ~IsMarkerLine(ls[m])}

\* the lines of ls at the positions in P, in order
RECURSIVE LinesAt(_, _, _)
LinesAt(ls, P, k) ==
    IF k > Len(ls) THEN <<>>
    ELSE (IF k \in P THEN <<ls[k]>> ELSE <<>>) \o LinesAt(ls, P, k + 1)

\* d with one more line, holding the replace marker
WithClosingMarker(d) ==
    IF d = <<>> \/ d[Len(d)] = LF THEN d \o ReplaceMarker ELSE d \o <<LF>> \o ReplaceMarker

\* what parseDiff returned in this state
Returned == [searchBlock |-> searchBlock, replaceBlock |-> replaceBlock, err |-> parseErr]

----------------------------------------------------------------------------
(* C6 *)

\* C6 as stated: a diff text whose lines hold exactly one search marker, one
\* separator and one replace marker in that order, with a line between the
\* first two, parses to the lines between the markers, joined by newlines.
C6_WellFormedDiffParses ==
    ParseDone =>
        LET ls == RawLines(diff)
        IN  WellFormed(ls)
              => /\ parseErr = NoError
                 /\ searchBlock = Join(BetweenSearchAndSeparator(ls), <<LF>>)
                 /\ replaceBlock = Join(BetweenSeparatorAndReplace(ls), <<LF>>)

\* C6 amended: the same for the lines of the diff text after the whitespace
\* at both ends of the text is trimmed, which are the lines parseDiff scans
\* (a first line made a marker line by the trimming counts as one).
C6_WellFormedTrimmedDiffParses ==
    ParseDone =>
        LET ls == TrimmedLines(diff)
        IN  WellFormed(ls)
              => /\ parseErr = NoError
                 /\ searchBlock = Join(BetweenSearchAndSeparator(ls), <<LF>>)
                 /\ replaceBlock = Join(BetweenSeparatorAndReplace(ls), <<LF>>)

\* a well-formed diff with a blank before the first marker and a blank line
\* after the last, parsed with non-empty fragments
C6_Witness ==
    /\ ParseDone /\ WellFormed(TrimmedLines(diff))
    /\ diff # <<>> /\ Head(diff) = SP /\ diff[Len(diff)] = LF
    /\ parseErr = NoError /\ searchBlock # <<>> /\ replaceBlock # <<>>

----------------------------------------------------------------------------
(* C7 *)

\* C7: parseDiff returns the no-search-block error and two empty fragments
\* exactly when no scanned line lies in a search section, and succeeds
\* otherwise; the empty text, a text without markers, a text starting with
\* the separator and holding no search marker, and a text whose search
\* markers are each directly followed by the separator all fail.
C7_FailsIffNoSearchLine ==
    ParseDone =>
        /\ IF InSearchSectionAt(lines) = {}
           THEN /\ IsNoSearchBlockError(parseErr)
                /\ searchBlock = <<>> /\ replaceBlock = <<>>
           ELSE parseErr = NoError
        /\ diff = <<>> => IsNoSearchBlockError(parseErr)
        /\ MarkerAt(lines) = {} => IsNoSearchBlockError(parseErr)
        /\ (IsSeparatorLine(lines[1]) /\ SearchMarkerAt(lines) = {})
               => IsNoSearchBlockError(parseErr)
        /\ (\A k \in SearchMarkerAt(lines) : k < Len(lines) /\ IsSeparatorLine(lines[k + 1]))
               => IsNoSearchBlockError(parseErr)

\* a search marker directly followed by the separator, replace lines
\* collected, and the error returned
C7_Witness ==
    /\ ParseDone /\ IsNoSearchBlockError(parseErr)
    /\ SearchMarkerAt(lines) # {}
    /\ \A k \in SearchMarkerAt(lines) : k < Len(lines) /\ IsSeparatorLine(lines[k + 1])
    /\ replaceLines # <<>>

----------------------------------------------------------------------------
(* C8 *)

HasSearchButNoClosingMarker(ls) == SearchMarkerAt(ls) # {} /\ ReplaceMarkerAt(ls) = {}

\* C8 as stated: for a diff text with a search marker and no closing marker
\* the returned fragments equal those of the same text with a closing marker
\* line appended.
C8_MissingClosingMarkerIsImplied ==
    (ParseDone /\ HasSearchButNoClosingMarker(RawLines(diff)))
        => Returned = ParseDiff(WithClosingMarker(diff))

\* the lines after the last marker were all collected, unchanged, into the
\* section that marker opened
OpenSectionRunsToTheEnd ==
    LET last == Max(MarkerAt(lines))
        rest == SubSeq(lines, last + 1, Len(lines))
        open == IF IsSearchMarkerLine(lines[last]) THEN searchLines ELSE replaceLines
    IN  /\ Len(open) >= Len(rest)
        /\ SubSeq(open, Len(open) - Len(rest) + 1, Len(open)) = rest

\* C8 amended: for a diff text with a search marker and no closing marker,
\* every line of the whitespace-trimmed text after the last marker is
\* collected unchanged into the open section, and the returned fragments
\* equal those of the trimmed text with a closing marker line appended.
C8_MissingClosingMarkerIsImpliedAfterTrim ==
    (ParseDone /\ HasSearchButNoClosingMarker(lines))
        => /\ OpenSectionRunsToTheEnd
           /\ Returned = ParseDiff(WithClosingMarker(TrimSpace(diff)))

\* a search section and an open replace section that runs to the end of the
\* input
C8_Witness ==
    /\ ParseDone /\ HasSearchButNoClosingMarker(lines)
    /\ parseErr = NoError /\ inReplace
    /\ Len(replaceLines) >= 2 /\ ~IsMarkerLine(lines[Len(lines)])

----------------------------------------------------------------------------
(* C10 *)

\* the lines in a search section below the last search marker
AfterLastSearchMarker(ls) ==
    LinesAt(ls, {k \in InSearchSectionAt(ls) : k > Max(SearchMarkerAt(ls))}, 1)

\* C10 as stated: with more than one search marker line, the returned search
\* fragment holds only the lines collected after the last search marker.
C10_LastSearchMarkerWins ==
    (ParseDone /\ Cardinality(SearchMarkerAt(lines)) > 1 /\ parseErr = NoError)
        => searchBlock = Join(AfterLastSearchMarker(lines), <<LF>>)

\* C10 amended: with more than one search marker line, the returned search
\* fragment holds the lines of every search section in order: a search
\* marker resumes the collection and discards nothing.
C10_SearchSectionsAccumulate ==
    (ParseDone /\ Cardinality(SearchMarkerAt(lines)) > 1)
        => /\ searchLines = LinesAt(lines, InSearchSectionAt(lines), 1)
           /\ parseErr = NoError
                 => searchBlock = Join(LinesAt(lines, InSearchSectionAt(lines), 1), <<LF>>)

\* two search markers, each with a line collected after it
C10_Witness ==
    /\ ParseDone /\ parseErr = NoError
    /\ Cardinality(SearchMarkerAt(lines)) = 2
    /\ \A k \in SearchMarkerAt(lines) : k + 1 \in InSearchSectionAt(lines)
    /\ Len(searchLines) = 2

----------------------------------------------------------------------------
(* C9 *)

FailedBeforeWrite ==
    pc \in {"failed readDiff", "failed parseDiff", "failed readFile", "failed performEdit"}

\* the edit of the original file by the fragments of the text on stdin
EditOfInputs ==
    LET parsed == ParseDiff(stdin)
    IN  PerformEdit(file0, parsed.searchBlock, parsed.replaceBlock)

\* C9: os.WriteFile is called at most once, only after the diff was read and
\* parsed, the file read and the edit computed without error, and with the
\* complete new content; while it was not called the file is unchanged; a
\* failure of one of the four steps ends the invocation with status 1 and no
\* write, and success ends it with status 0, after the write, with the new
\* content in the file.
C9_SingleWriteAfterAllSucceeded ==
    /\ Len(writes) <= 1
    /\ writes = <<>> => file = file0
    /\ writes # <<>> =>
          /\ pc \in {"done", "failed writeFile"}
          /\ diff = stdin /\ ParseDiff(stdin).err = NoError /\ parseErr = NoError
          /\ content = file0
          /\ EditOfInputs.err = NoError /\ editErr = NoError
          /\ writes = <<EditOfInputs.newContent>>
    /\ FailedBeforeWrite => (status = 1 /\ writes = <<>> /\ file = file0)
    /\ pc \in {"failed usage", "failed writeFile"} => status = 1
    /\ pc = "done" => (status = 0 /\ Len(writes) = 1 /\ file = EditOfInputs.newContent)
    /\ status = 0 => pc \in {"done", "explained"}
    /\ status = -1 => pc \notin {"done", "explained", "failed usage", "failed readDiff",
                                 "failed parseDiff", "failed readFile",
                                 "failed performEdit", "failed writeFile"}

\* a successful invocation that changed the file
C9_Witness ==
    pc = "done" /\ status = 0 /\ Len(writes) = 1 /\ file # file0 /\ file = newContent

----------------------------------------------------------------------------
(* C11 *)

Scanning == pc = "parseLoop"

\* the marker lines among the first k lines
MarkersConsumed(k) == Cardinality({j \in 1..k : IsMarkerLine(lines[j])})

\* at every step of the scan at most one of inSearch and inReplace is
\* set; the lines collected so far into the two fragments together are no
\* more than the non-marker lines consumed so far, so no line went into both;
\* and no collected line starts with one of the three markers.
AtMostOneCollector ==
    (Scanning \/ ParseDone) =>
        /\ ~(inSearch /\ inReplace)
        /\ Len(searchLines) + Len(replaceLines) <= idx - MarkersConsumed(idx)
        /\ \A k \in 1..Len(searchLines) : ~IsMarkerLine(searchLines[k])
        /\ \A k \in 1..Len(replaceLines) : ~IsMarkerLine(replaceLines[k])

\* one step of the scan: the two fragments together grow by at most the line
\* consumed, a marker line grows neither, and each fragment only grows at
\* its end, by that line
EachLineGoesToAtMostOneFragment ==
    [][(Scanning /\ idx' = idx + 1) =>
          /\ Len(searchLines') + Len(replaceLines')
                <= Len(searchLines) + Len(replaceLines) + 1
          /\ IsMarkerLine(lines[idx + 1])
                => (searchLines' = searchLines /\ replaceLines' = replaceLines)
          /\ searchLines' \in {searchLines, Append(searchLines, lines[idx + 1])}
          /\ replaceLines' \in {replaceLines, Append(replaceLines, lines[idx + 1])}]_vars

\* C11: throughout parseDiff's scan, for every input, at most one collector
\* is active, every line is appended to at most one of the two fragments,
\* and a line starting with one of the three markers is appended to neither.
C11_OneCollectorOneFragment == []AtMostOneCollector /\ EachLineGoesToAtMostOneFragment

\* in the middle of a scan: a search section closed by the separator, both
\* fragments holding a line, the replace collector the only one active, and
\* a search marker still to come
C11_Witness ==
    /\ Scanning /\ idx < Len(lines)
    /\ inReplace /\ ~inSearch
    /\ searchLines # <<>> /\ replaceLines # <<>>
    /\ IsSearchMarkerLine(lines[idx + 1])

----------------------------------------------------------------------------
(* C12 *)

\* a text in which no CR occurs: its lines end with LF
IsLFText(d) == \A k \in 1..Len(d) : d[k] # CR

\* d with every LF line terminator written as CRLF
RECURSIVE WithCRLF(_)
WithCRLF(d) ==
    IF d = <<>> THEN <<>>
    ELSE (IF Head(d) = LF THEN <<CR, LF>> ELSE <<Head(d)>>) \o WithCRLF(Tail(d))

\* where in the normalized content c an edit by search s takes place: the
\* start and the length of the match
EditRegion(c, s) ==
    <<Index(CRLFtoLF(c), CRLFtoLF(s)), Len(CRLFtoLF(s))>>

\* parseDiff then performEdit succeeded on the text of stdin and the file
PipelineSucceeded ==
    /\ pc \in {"writeFile", "done", "failed writeFile"}
    /\ parseErr = NoError /\ editErr = NoError
    /\ diff = stdin /\ content = file0

\* C12: whenever parseDiff and performEdit succeed for a diff text with LF
\* line terminators and a content, the same diff text with CRLF terminators
\* parses too, and performEdit with its fragments succeeds on that content
\* and replaces the same region.
C12_CRLFDiffAppliesLikeLFDiff ==
    (PipelineSucceeded /\ IsLFText(stdin)) =>
        LET parsed == ParseDiff(WithCRLF(stdin))
            edited == PerformEdit(file0, parsed.searchBlock, parsed.replaceBlock)
        IN  /\ parsed.err = NoError
            /\ edited.err = NoError
            /\ EditRegion(file0, parsed.searchBlock) = EditRegion(file0, searchBlock)

====
